---- MODULE Spec2Model ----
(***************************************************************************)
(* Model of the DermAssist API (src/main.py): four HTTP endpoints,         *)
(*   GET /, GET /api/hello, GET /test (test_database) and                  *)
(*   POST /analyze (analyze_skin_image).                                   *)
(*                                                                         *)
(* Representation choices.                                                 *)
(*  - An upload's bytes are a sequence of runs [b |-> byte, n |-> count],  *)
(*    standing for the byte string b1^n1 b2^n2 ...; slices and sums are    *)
(*    computed on the runs, so that uploads longer than 4096 and 8192      *)
(*    bytes are within reach of the model checker.                         *)
(*  - Python floats are modelled in fixed point: confidences in            *)
(*    millionths (MICRO), rounded results in tenths.  The variance is kept *)
(*    as an exact rational q + r/n^2.                                      *)
(*  - The glyphs of the status strings are written in ASCII:               *)
(*    U+2705 as [ok], U+274C as [x], U+26A0 U+FE0F as [warn].              *)
(*  - Text that is only sliced (exception messages) is a sequence of       *)
(*    character codes.                                                     *)
(***************************************************************************)
EXTENDS Integers, Sequences, FiniteSets, TLC

VARIABLES pc, req, locals, resp, env

vars == <<pc, req, locals, resp, env>>

----------------------------------------------------------------------------
(* Program constants of analyze_skin_image and test_database.              *)

SAMPLE_TOTAL == 4096
SAMPLE_VAR == 8192
BYTES_PER_KB == 1024
SIZE_DIV == 2048
VAR_MOD == 2000
VAR_DIV == 5000
MAX_COLLECTIONS == 10
ERR_CHARS == 50
HTTP_OK == 200
HTTP_BAD_REQUEST == 400
HTTP_UNPROCESSABLE == 422
HTTP_SERVER_ERROR == 500

MICRO == 1000 * 1000
\* 0.55, 0.2 and 0.98 of line 147, in millionths
CONF_BASE == 550000
SIZE_CAP == 200000
CONF_CAP == 980000

----------------------------------------------------------------------------
(* Bounds of the model.                                                    *)

NumReqs == 2
MaxRuns == 2
MaxColls == 11
MaxMsgLen == 51

----------------------------------------------------------------------------
(* Arithmetic helpers.                                                     *)

Min(a, b) == IF a <= b THEN a ELSE b

\* a * b = q * c + r with 0 <= r < c, computed by doubling so that no
\* intermediate value exceeds 2 * c + a (Python integers and floats do not
\* overflow where the products of lines 146-147 exceed 32 bits).
RECURSIVE MulDivMod(_, _, _)
MulDivMod(a, b, c) ==
    IF b = 0 THEN [q |-> 0, r |-> 0]
    ELSE LET h == MulDivMod(a, b \div 2, c)
             d == 2 * h.r
             q2 == 2 * h.q + (d \div c)
             r2 == d % c
             s == r2 + (a % c)
         IN  IF b % 2 = 0 THEN [q |-> q2, r |-> r2]
             ELSE [q |-> q2 + (a \div c) + (s \div c), r |-> s % c]

\* round(num / den) to an integer, ties to even: Python's round()
RoundHalfEven(num, den) ==
    LET q == num \div den
        r == num % den
    IN  IF 2 * r > den \/ (2 * r = den /\ q % 2 = 1) THEN q + 1 ELSE q

----------------------------------------------------------------------------
(* Byte strings as runs.                                                   *)

RECURSIVE ByteLen(_)
\* len(content)
ByteLen(c) == IF c = <<>> THEN 0 ELSE Head(c).n + ByteLen(Tail(c))

RECURSIVE Take(_, _)
\* content[:k]
Take(c, k) ==
    IF c = <<>> \/ k <= 0 THEN <<>>
    ELSE IF Head(c).n >= k THEN <<[b |-> Head(c).b, n |-> k]>>
    ELSE <<Head(c)>> \o Take(Tail(c), k - Head(c).n)

RECURSIVE SumBytes(_)
\* sum(content)
SumBytes(c) == IF c = <<>> THEN 0 ELSE Head(c).b * Head(c).n + SumBytes(Tail(c))

RECURSIVE SumSquares(_)
\* sum(b ** 2 for b in content)
SumSquares(c) ==
    IF c = <<>> THEN 0
    ELSE Head(c).b * Head(c).b * Head(c).n + SumSquares(Tail(c))

----------------------------------------------------------------------------
(* The pseudo-analysis of analyze_skin_image.                              *)

\* mutants of Total: the slice forgotten; the 8192-byte sample used; the sum
\* kept in an accumulator that other requests in flight have added to
TotalWhole(content) == SumBytes(content)
TotalSample8K(content) == SumBytes(Take(content, SAMPLE_VAR))
TotalShared(content) ==
    LET seen == {s \in DOMAIN locals : "content" \in DOMAIN locals[s]}
        carried == IF seen = {} THEN 0
                   ELSE SumBytes(Take(locals[CHOOSE s \in seen : TRUE].content,
                                      SAMPLE_TOTAL))
    IN  carried + SumBytes(Take(content, SAMPLE_TOTAL))

\* total = sum(content[:4096])
Total(content) == SumBytes(Take(content, SAMPLE_TOTAL))

\* size_kb = len(content) / 1024.0, kept as the byte count
\* round(size_kb, 1), in tenths of a kilobyte
SizeKbTenths(content) == RoundHalfEven(ByteLen(content) * 10, BYTES_PER_KB)

\* variance over sample = content[:8192]: mean of squares minus square of the
\* mean, equal to sum((b - mean) ** 2) / len(sample); the value is
\* q + r / (n * n) with 0 <= r < n * n.  0.0 for an empty sample.
Variance(content) ==
    LET sample == Take(content, SAMPLE_VAR)
        n == ByteLen(sample)
    IN  IF n = 0 THEN [q |-> 0, r |-> 0, d |-> 1]
        ELSE LET s1 == SumBytes(sample)
                 s2 == SumSquares(sample)
                 sq == MulDivMod(s1, s1, n * n)
                 qa == s2 \div n
                 ra == (s2 % n) * n
             IN  IF ra >= sq.r
                 THEN [q |-> qa - sq.q, r |-> ra - sq.r, d |-> n * n]
                 ELSE [q |-> qa - sq.q - 1, r |-> ra - sq.r + n * n, d |-> n * n]

\* (variance % 2000) / 5000, in millionths
VarTerm(content) ==
    LET v == Variance(content)
    IN  (v.q % VAR_MOD) * (MICRO \div VAR_DIV)
          + MulDivMod(v.r, MICRO \div VAR_DIV, v.d).q

\* min(size_kb / 2048.0, 0.2), in millionths
SizeTerm(content) ==
    Min(MulDivMod(ByteLen(content), MICRO, BYTES_PER_KB * SIZE_DIV).q, SIZE_CAP)

\* mutant of BaseConf: the cap at 0.98 left out
BaseConfNoCap(content) == CONF_BASE + VarTerm(content) + SizeTerm(content)

\* base_conf = min(0.98, 0.55 + ... + ...), in millionths
BaseConf(content) ==
    Min(CONF_CAP, CONF_BASE + VarTerm(content) + SizeTerm(content))

\* round(base_conf * 100, 1), in tenths of a percent
Confidence(content) == RoundHalfEven(BaseConf(content), MICRO \div 1000)

----------------------------------------------------------------------------
(* The condition catalog, lines 90-136 (a list built by every call).       *)

CONDITIONS ==
    << [name |-> "Acne Vulgaris",
        desc |-> "Common inflammatory condition with comedones, papules, or pustules.",
        tips |-> << "Use a gentle, non-comedogenic cleanser twice daily",
                    "Apply a 2.5%-5% benzoyl peroxide or salicylic acid product",
                    "Avoid picking and use clean pillowcases" >>],
       [name |-> "Eczema (Atopic Dermatitis)",
        desc |-> "Itchy, dry, and inflamed patches that may flare periodically.",
        tips |-> << "Moisturize with fragrance-free cream after bathing",
                    "Use lukewarm showers and gentle cleansers",
                    "Consider OTC hydrocortisone for short-term flares" >>],
       [name |-> "Psoriasis",
        desc |-> "Well-demarcated, scaly plaques often on elbows, knees, or scalp.",
        tips |-> << "Keep skin moisturized; avoid harsh scrubbing",
                    "Sun exposure in moderation may help",
                    "Discuss topical steroids or vitamin D analogs with a clinician" >>],
       [name |-> "Benign Nevus (Mole)",
        desc |-> "Uniformly pigmented lesion with symmetric borders.",
        tips |-> << "Monitor for ABCDE changes (Asymmetry, Border, Color, Diameter, Evolving)",
                    "Use daily SPF 30+",
                    "Seek evaluation if rapid change or symptoms occur" >>],
       [name |-> "Contact Dermatitis",
        desc |-> "Localized redness or rash triggered by irritants or allergens.",
        tips |-> << "Identify and avoid suspected triggers",
                    "Cool compresses; fragrance-free emollients",
                    "Short course OTC hydrocortisone for itch" >>] >>

\* idx = total % len(conditions)
Idx(content, conditions) == Total(content) % Len(conditions)

\* selected = conditions[idx]  (Python indexes from 0)
Selected(content, conditions) == conditions[Idx(content, conditions) + 1]

\* the dict returned at lines 151-159
AnalysisResult(content, conditions, latency_ms, filename) ==
    [condition |-> Selected(content, conditions).name,
     confidence |-> Confidence(content),
     description |-> Selected(content, conditions).desc,
     suggestions |-> Selected(content, conditions).tips,
     latency_ms |-> latency_ms,
     filename |-> filename,
     size_kb |-> SizeKbTenths(content)]

----------------------------------------------------------------------------
(* Python values used by test_database.                                    *)

NONE == "None"

\* exception classes the collaborator may raise, each with its base class
ExcBase ==
    [ModuleNotFoundError |-> "ImportError",
     ImportError |-> "Exception",
     AttributeError |-> "Exception",
     RuntimeError |-> "Exception",
     Exception |-> "BaseException"]

RECURSIVE IsInstance(_, _)
\* isinstance(exc, cls)
IsInstance(type, cls) ==
    IF type = cls THEN TRUE
    ELSE IF type \in DOMAIN ExcBase THEN IsInstance(ExcBase[type], cls)
    ELSE FALSE

\* mutant of Catches: the class compared for equality, subclasses not caught
CatchesExact(exc, cls) == exc.type = cls

\* does "except cls" catch exc
Catches(exc, cls) == IsInstance(exc.type, cls)

\* mutant of ErrText: the message not cut
ErrTextWhole(exc) == exc.msg

\* str(e)[:50]
ErrText(exc) == SubSeq(exc.msg, 1, Min(ERR_CHARS, Len(exc.msg)))

\* mutant of FirstCollections: the list not cut
AllCollections(collections) == collections

\* collections[:10]
FirstCollections(collections) ==
    SubSeq(collections, 1, Min(MAX_COLLECTIONS, Len(collections)))

\* a status string: literal text followed by the sliced message, if any
Text(prefix, tail) == [prefix |-> prefix, tail |-> tail]

\* truthiness of os.getenv(name): None and "" are falsy
Truthy(v) == v.set /\ v.value # ""

\* "[ok] Set" if os.getenv(name) else "[x] Not Set"
EnvReport(v) == IF Truthy(v) THEN "[ok] Set" ELSE "[x] Not Set"

\* the dict of lines 27-34
InitialResponse ==
    [backend |-> "[ok] Running",
     database |-> Text("[x] Not Available", <<>>),
     database_url |-> NONE,
     database_name |-> NONE,
     connection_status |-> "Not Connected",
     collections |-> <<>>]

----------------------------------------------------------------------------
(* Inputs.                                                                 *)

Reqs == 1 .. NumReqs

Run(b, n) == [b |-> b, n |-> n]

\* byte strings of at most k runs with bytes B and run lengths L
RECURSIVE Contents(_, _, _)
Contents(B, L, k) ==
    IF k = 0 THEN {<<>>}
    ELSE LET shorter == Contents(B, L, k - 1)
         IN  shorter \cup
             {Append(c, Run(b, n)) : c \in {x \in shorter : Len(x) = k - 1},
                                     b \in B, n \in L}

\* uploads on both sides of the 4096 and 8192 byte samples, of the 0.2 size
\* cap (419431 bytes) and of the variance wrap at 2000
RichContents == Contents({0, 1, 113, 250, 255}, {1, 2, 4096, 8191, 500000}, MaxRuns)

\* a few short uploads for the requests that run side by side: empty, equal
\* sums from different bytes, equal first 4096 bytes with different tails
SmallContents ==
    {<<>>, <<Run(2, 1)>>, <<Run(1, 2)>>, <<Run(1, SAMPLE_TOTAL)>>,
     <<Run(1, SAMPLE_TOTAL), Run(2, 1)>>, <<Run(1, SAMPLE_TOTAL), Run(254, SAMPLE_TOTAL)>>}

Filenames == {"a.jpg", "b.png"}

Latencies == {0, 3}

\* an exception message of n characters
Msg(n) == [i \in 1 .. n |-> 97 + ((i * 7) % 26)]

MsgLens == {0, 1, ERR_CHARS - 1, ERR_CHARS, MaxMsgLen}

Exc(type, n) == [type |-> type, msg |-> Msg(n)]

\* what "from database import db" can do: raise, or bind db to None or to a
\* handle
ImportOutcomes(lens) ==
    {[kind |-> "raise", exc |-> Exc(t, n)] :
        t \in {"ModuleNotFoundError", "ImportError", "RuntimeError"}, n \in lens}
    \cup {[kind |-> "ok", db |-> d] : d \in {NONE, "handle"}}

\* what reading db.name can do: AttributeError when the handle has no such
\* attribute, another exception from a property, or a value
NameOutcomes(lens) ==
    {[kind |-> "raise", exc |-> Exc("AttributeError", 0)]}
    \cup {[kind |-> "raise", exc |-> Exc("RuntimeError", n)] : n \in lens}
    \cup {[kind |-> "value", value |-> "mydb"]}

ListLens == {0, 1, MAX_COLLECTIONS - 1, MAX_COLLECTIONS, MaxColls}

\* what db.list_collection_names() can do: raise, or return names (numbered
\* here), in either order
ListOutcomes(lens, sizes) ==
    {[kind |-> "raise", exc |-> Exc("RuntimeError", n)] : n \in lens}
    \cup {[kind |-> "value", value |-> [i \in 1 .. n |-> i]] : n \in sizes}
    \cup {[kind |-> "value", value |-> [i \in 1 .. n |-> n + 1 - i]] : n \in sizes}

UNSET == [set |-> FALSE, value |-> ""]

EnvValues == {UNSET, [set |-> TRUE, value |-> ""], [set |-> TRUE, value |-> "x"]}

----------------------------------------------------------------------------
(* State: one slot per request in flight.                                  *)

NoReq == [path |-> ""]
NoLocals == [handler |-> ""]
NoResp == [status |-> 0]

InitWith(E) ==
    /\ pc = [r \in Reqs |-> "idle"]
    /\ req = [r \in Reqs |-> NoReq]
    /\ locals = [r \in Reqs |-> NoLocals]
    /\ resp = [r \in Reqs |-> NoResp]
    /\ env \in [{"DATABASE_URL", "DATABASE_NAME"} -> E]

Init == InitWith({UNSET})

Json(status, body) == [status |-> status, body |-> body]

\* HTTPException(status_code, detail), and the framework's own error replies
HttpError(status, detail) == [status |-> status, detail |-> detail]

Goto(r, label) == pc' = [pc EXCEPT ![r] = label]
Respond(r, response) ==
    /\ resp' = [resp EXCEPT ![r] = response]
    /\ Goto(r, "done")

\* a request for path is received and routed
Arrive(r, path, request) ==
    /\ pc[r] = "idle"
    /\ req' = [req EXCEPT ![r] = request]
    /\ Goto(r, path)
    /\ UNCHANGED <<locals, resp, env>>

\* the response has been sent; the slot is free again
Deliver(r) ==
    /\ pc[r] = "done"
    /\ pc' = [pc EXCEPT ![r] = "idle"]
    /\ req' = [req EXCEPT ![r] = NoReq]
    /\ locals' = [locals EXCEPT ![r] = NoLocals]
    /\ resp' = [resp EXCEPT ![r] = NoResp]
    /\ UNCHANGED env

----------------------------------------------------------------------------
(* GET / and GET /api/hello.                                               *)

ArriveRoot(r) == Arrive(r, "/", [path |-> "/"])

read_root(r) ==
    /\ pc[r] = "/"
    /\ Respond(r, Json(HTTP_OK, [message |-> "Hello from FastAPI Backend!"]))
    /\ UNCHANGED <<req, locals, env>>

ArriveHello(r) == Arrive(r, "/api/hello", [path |-> "/api/hello"])

hello(r) ==
    /\ pc[r] = "/api/hello"
    /\ Respond(r, Json(HTTP_OK, [message |-> "Hello from the backend API!"]))
    /\ UNCHANGED <<req, locals, env>>

----------------------------------------------------------------------------
(* GET /test: test_database.                                               *)

ArriveTest(r) == Arrive(r, "/test", [path |-> "/test"])

NotObserved == [kind |-> "none"]

\* the except clauses of lines 56-59 applied to an exception leaving the try
\* body with the dict as it then is; caught = FALSE: it leaves the function
OuterExcept(response, exc) ==
    IF Catches(exc, "ImportError")
    THEN [caught |-> TRUE,
          response |-> [response EXCEPT !.database =
              Text("[x] Database module not found (run enable-database first)", <<>>)]]
    ELSE IF Catches(exc, "Exception")
    THEN [caught |-> TRUE,
          response |-> [response EXCEPT !.database = Text("[x] Error: ", ErrText(exc))]]
    ELSE [caught |-> FALSE, response |-> response]

\* db.name if hasattr(db, 'name') else "[ok] Connected", line 43: hasattr is
\* False on AttributeError and lets any other exception through
NameOrDefault(named) ==
    IF named.kind = "value" THEN [kind |-> "value", value |-> named.value]
    ELSE IF IsInstance(named.exc.type, "AttributeError")
    THEN [kind |-> "value", value |-> "[ok] Connected"]
    ELSE named

\* lines 40-45 (and 53-54) once db is bound
AfterImport(response, db, named) ==
    IF db # NONE
    THEN LET r1 == [response EXCEPT !.database = Text("[ok] Available", <<>>),
                                    !.database_url = "[ok] Configured"]
             nm == NameOrDefault(named)
         IN  IF nm.kind = "value"
             THEN [next |-> "test_list",
                   response |-> [r1 EXCEPT !.database_name = nm.value,
                                           !.connection_status = "Connected"]]
             ELSE LET h == OuterExcept(r1, nm.exc)
                  IN  [next |-> IF h.caught THEN "test_env" ELSE "raise",
                       response |-> h.response]
    ELSE [next |-> "test_env",
          response |-> [response EXCEPT !.database =
              Text("[warn]  Available but not initialized", <<>>)]]

\* lines 47-52, and 56-59 for what the inner except does not catch
AfterList(response, listed) ==
    IF listed.kind = "value"
    THEN [next |-> "test_env",
          response |-> [response EXCEPT
              !.collections = FirstCollections(listed.value),
              !.database = Text("[ok] Connected & Working", <<>>)]]
    ELSE IF Catches(listed.exc, "Exception")
    THEN [next |-> "test_env",
          response |-> [response EXCEPT !.database =
              Text("[warn]  Connected but Error: ", ErrText(listed.exc))]]
    ELSE LET h == OuterExcept(response, listed.exc)
         IN  [next |-> IF h.caught THEN "test_env" ELSE "raise",
              response |-> h.response]

\* mutant of AfterEnv: only the fields still None are filled in
AfterEnvIfNone(response, environ) ==
    [response EXCEPT
       !.database_url = IF @ = NONE THEN EnvReport(environ["DATABASE_URL"]) ELSE @,
       !.database_name = IF @ = NONE THEN EnvReport(environ["DATABASE_NAME"]) ELSE @]

\* lines 62-63
AfterEnv(response, environ) ==
    [response EXCEPT !.database_url = EnvReport(environ["DATABASE_URL"]),
                     !.database_name = EnvReport(environ["DATABASE_NAME"])]

\* an exception that leaves a handler: the framework answers 500
Unhandled == HttpError(HTTP_SERVER_ERROR, "Internal Server Error")

TestStep(r, step, obs) ==
    /\ locals' = [locals EXCEPT ![r] = obs @@ [response |-> step.response]]
    /\ IF step.next = "raise"
       THEN Respond(r, Unhandled)
       ELSE Goto(r, step.next) /\ UNCHANGED resp
    /\ UNCHANGED <<req, env>>

\* lines 27-45, 53-59: build the dict, import the collaborator, read its name
TestImport(r, lens) ==
    /\ pc[r] = "/test"
    /\ \E imported \in ImportOutcomes(lens) :
         IF imported.kind = "raise"
         THEN LET h == OuterExcept(InitialResponse, imported.exc)
              IN  TestStep(r, [next |-> IF h.caught THEN "test_env" ELSE "raise",
                               response |-> h.response],
                           [handler |-> "test_database", imported |-> imported,
                            named |-> NotObserved, listed |-> NotObserved])
         ELSE \E named \in IF imported.db = NONE THEN {NotObserved}
                           ELSE NameOutcomes(lens) :
                TestStep(r, AfterImport(InitialResponse, imported.db, named),
                         [handler |-> "test_database", imported |-> imported,
                          named |-> named, listed |-> NotObserved])

\* lines 47-52: enumerate the collections
TestList(r, lens, sizes) ==
    /\ pc[r] = "test_list"
    /\ \E listed \in ListOutcomes(lens, sizes) :
         TestStep(r, AfterList(locals[r].response, listed),
                  [handler |-> "test_database", imported |-> locals[r].imported,
                   named |-> locals[r].named, listed |-> listed])

\* lines 61-65: report the environment and return
TestEnv(r) ==
    /\ pc[r] = "test_env"
    /\ LET response == AfterEnv(locals[r].response, env)
       IN  /\ locals' = [locals EXCEPT ![r].response = response]
           /\ Respond(r, Json(HTTP_OK, response))
    /\ UNCHANGED <<req, env>>

----------------------------------------------------------------------------
(* POST /analyze: analyze_skin_image.                                      *)

ArriveAnalyze(r) ==
    \E hasFile \in BOOLEAN :
      \E filename \in IF hasFile THEN Filenames ELSE {""} :
        Arrive(r, "/analyze",
               [path |-> "/analyze", hasFile |-> hasFile, filename |-> filename])

\* file: UploadFile = File(...), line 70: a required form field, which the
\* framework binds before it calls the function
FileParam(request) ==
    IF request.hasFile
    THEN [bound |-> TRUE, file |-> [filename |-> request.filename]]
    ELSE [bound |-> FALSE]

\* bool(file), line 75: an UploadFile defines neither __bool__ nor __len__
FileTruthy(file) == TRUE

\* mutant of ContentTruthy: the emptiness test left out
ContentAlwaysTruthy(content) == TRUE

\* "if not content", line 82
ContentTruthy(content) == ByteLen(content) > 0

\* request validation, then lines 75-78 up to the await
AnalyzeEnter(r) ==
    /\ pc[r] = "/analyze"
    /\ LET param == FileParam(req[r])
       IN  IF ~param.bound
           THEN /\ Respond(r, HttpError(HTTP_UNPROCESSABLE, "Field required"))
                /\ UNCHANGED locals
           ELSE IF ~FileTruthy(param.file)
           THEN /\ Respond(r, HttpError(HTTP_BAD_REQUEST, "No file uploaded"))
                /\ UNCHANGED locals
           ELSE /\ locals' = [locals EXCEPT ![r] =
                                [handler |-> "analyze_skin_image", file |-> param.file]]
                /\ Goto(r, "analyze_read")
                /\ UNCHANGED resp
    /\ UNCHANGED <<req, env>>

\* what "await file.read()" can do: raise, or return the upload's bytes
ReadOutcomes(C) == {[kind |-> "raise"]} \cup {[kind |-> "value", value |-> c] : c \in C}

\* lines 81-159 after the await
AnalyzeRead(r, C) ==
    /\ pc[r] = "analyze_read"
    /\ \E read \in ReadOutcomes(C) :
         IF read.kind = "raise"
         THEN Respond(r, Unhandled) /\ UNCHANGED locals
         ELSE LET content == read.value
              IN  IF ~ContentTruthy(content)
                  THEN /\ locals' = [locals EXCEPT ![r] =
                                       @ @@ [content |-> content]]
                       /\ Respond(r, HttpError(HTTP_BAD_REQUEST, "Empty file uploaded"))
                  ELSE \E latency_ms \in Latencies :
                         /\ locals' = [locals EXCEPT ![r] =
                                         @ @@ [content |-> content,
                                               conditions |-> CONDITIONS]]
                         /\ Respond(r, Json(HTTP_OK,
                                AnalysisResult(content, CONDITIONS, latency_ms,
                                               locals[r].file.filename)))
    /\ UNCHANGED <<req, env>>

----------------------------------------------------------------------------
(* Specifications.                                                         *)

\* requests in flight on every slot, with short uploads
Root == \E r \in Reqs : ArriveRoot(r) \/ read_root(r)
Hello == \E r \in Reqs : ArriveHello(r) \/ hello(r)
Test ==
    \E r \in Reqs :
       \/ ArriveTest(r)
       \/ TestImport(r, {ERR_CHARS})
       \/ TestList(r, {ERR_CHARS}, {MAX_COLLECTIONS})
       \/ TestEnv(r)
Analyze ==
    \E r \in Reqs : ArriveAnalyze(r) \/ AnalyzeEnter(r) \/ AnalyzeRead(r, SmallContents)
Delivered == \E r \in Reqs : Deliver(r)

Next == Root \/ Hello \/ Test \/ Analyze \/ Delivered

Spec == Init /\ [][Next]_vars

\* one /test request at a time, every collaborator and environment situation
InitTest == InitWith(EnvValues)

NextTest ==
    \/ ArriveTest(1)
    \/ TestImport(1, MsgLens)
    \/ TestList(1, MsgLens, ListLens)
    \/ TestEnv(1)
    \/ Deliver(1)

SpecTest == InitTest /\ [][NextTest]_vars

\* one /analyze request at a time, uploads of every size class
InitAnalyze == InitWith({UNSET})

NextAnalyze ==
    \/ ArriveAnalyze(1)
    \/ AnalyzeEnter(1)
    \/ AnalyzeRead(1, RichContents)
    \/ Deliver(1)

SpecAnalyze == InitAnalyze /\ [][NextAnalyze]_vars

----------------------------------------------------------------------------
(* Vocabulary of the properties.                                           *)

Done(r, path) == pc[r] = "done" /\ req[r].path = path

\* the /analyze request of slot r has read its upload
HasContent(r) == Done(r, "/analyze") /\ "content" \in DOMAIN locals[r]

\* the /analyze request of slot r has read a non-empty upload
Analyzed(r) == HasContent(r) /\ ByteLen(locals[r].content) > 0

\* number of bytes in the first i runs of c
RECURSIVE EndOf(_, _)
EndOf(c, i) == IF i = 0 THEN 0 ELSE c[i].n + EndOf(c, i - 1)

\* sum of the values of the first min(k, length) bytes of c, run by run: each
\* run counts for the part of it that lies before position k
RECURSIVE PrefixSumTo(_, _, _)
PrefixSumTo(c, k, i) ==
    IF i = 0 THEN 0
    ELSE c[i].b * (Min(k, EndOf(c, i)) - Min(k, EndOf(c, i - 1)))
           + PrefixSumTo(c, k, i - 1)

PrefixSum(c, k) == PrefixSumTo(c, k, Len(c))

CatalogNames ==
    << "Acne Vulgaris", "Eczema (Atopic Dermatitis)", "Psoriasis",
       "Benign Nevus (Mole)", "Contact Dermatitis" >>

TestFields ==
    {"backend", "database", "database_url", "database_name", "connection_status",
     "collections"}

\* an analysis result without its latency
Timeless(response) ==
    IF response.status = HTTP_OK
    THEN [response EXCEPT !.body = [f \in DOMAIN @ \ {"latency_ms"} |-> @[f]]]
    ELSE response

----------------------------------------------------------------------------
(* C1: for every non-empty upload the selection index is                   *)
(* (sum of the first min(4096, length) bytes) mod 5, lies in 0..4, and the *)
(* returned condition, description and suggestions are those of the        *)
(* catalog entry at that index, the five names being in the stated order.  *)
C1_SelectionByPrefixSum ==
    \A r \in Reqs :
       Analyzed(r) =>
          LET index == PrefixSum(locals[r].content, 4096) % 5
          IN  /\ index \in 0 .. 4
              /\ resp[r].status = 200
              /\ resp[r].body.condition = CatalogNames[index + 1]
              /\ CONDITIONS[index + 1].name = CatalogNames[index + 1]
              /\ resp[r].body.description = CONDITIONS[index + 1].desc
              /\ resp[r].body.suggestions = CONDITIONS[index + 1].tips

\* an upload longer than 4096 bytes whose later bytes would change the index
C1_Witness ==
    \E r \in Reqs :
       /\ Analyzed(r)
       /\ ByteLen(locals[r].content) > 4096
       /\ SumBytes(locals[r].content) % 5 # PrefixSum(locals[r].content, 4096) % 5
       /\ resp[r].body.condition = "Psoriasis"

(* C2: GET /test never raises: every /test request ends in a 200 response  *)
(* that carries exactly the six fields, whatever the collaborator did.     *)
C2_TestAlwaysAnswers ==
    \A r \in Reqs :
       Done(r, "/test") =>
          /\ resp[r].status = 200
          /\ DOMAIN resp[r].body = TestFields

\* the handle was obtained and reading its name raised
C2_Witness ==
    \E r \in Reqs :
       /\ Done(r, "/test")
       /\ locals[r].named.kind = "raise"
       /\ locals[r].named.exc.type = "RuntimeError"
       /\ resp[r].status = 200
       /\ resp[r].body.database.prefix = "[x] Error: "

(* C3: when the content read is zero bytes long the request ends in a 400  *)
(* error with detail "Empty file uploaded" and no analysis result field.   *)
C3_EmptyUploadRejected ==
    \A r \in Reqs :
       (HasContent(r) /\ ByteLen(locals[r].content) = 0) =>
          /\ resp[r].status = 400
          /\ resp[r].detail = "Empty file uploaded"
          /\ DOMAIN resp[r] = {"status", "detail"}

C3_Witness ==
    \E r \in Reqs :
       /\ HasContent(r)
       /\ locals[r].content = <<>>
       /\ resp[r] = [status |-> 400, detail |-> "Empty file uploaded"]

(* C4: a POST /analyze request that omits the file field yields a 400      *)
(* response with detail "No file uploaded".                                *)
C4_MissingFileIs400 ==
    \A r \in Reqs :
       (Done(r, "/analyze") /\ ~req[r].hasFile) =>
          /\ resp[r].status = 400
          /\ resp[r].detail = "No file uploaded"

(* C5: for every non-empty upload the returned confidence, a percentage    *)
(* with one decimal (kept in tenths), is within [0, 98.0].                 *)
C5_ConfidenceInRange ==
    \A r \in Reqs :
       Analyzed(r) =>
          /\ resp[r].status = 200
          /\ resp[r].body.confidence >= 0
          /\ resp[r].body.confidence <= 980

\* the sum of the three terms exceeds 0.98 and the result is 98.0
C5_Witness ==
    \E r \in Reqs :
       /\ Analyzed(r)
       /\ 550000 + VarTerm(locals[r].content) + SizeTerm(locals[r].content) > 980000
       /\ Variance(locals[r].content).q >= 2000
       /\ resp[r].body.confidence = 980

(* C6: database_url and database_name of every /test response report only  *)
(* whether DATABASE_URL and DATABASE_NAME are set to a non-empty value,    *)
(* whatever the import, the handle or the enumeration did.                 *)
C6_EnvFieldsReportPresence ==
    \A r \in Reqs :
       Done(r, "/test") =>
          /\ resp[r].status = 200
          /\ resp[r].body.database_url =
               IF env["DATABASE_URL"].set /\ env["DATABASE_URL"].value # ""
               THEN "[ok] Set" ELSE "[x] Not Set"
          /\ resp[r].body.database_name =
               IF env["DATABASE_NAME"].set /\ env["DATABASE_NAME"].value # ""
               THEN "[ok] Set" ELSE "[x] Not Set"

\* a handle that exposes a name, enumeration done, DATABASE_NAME set but empty
C6_Witness ==
    \E r \in Reqs :
       /\ Done(r, "/test")
       /\ locals[r].named.kind = "value"
       /\ locals[r].listed.kind = "value"
       /\ env["DATABASE_NAME"] = [set |-> TRUE, value |-> ""]
       /\ env["DATABASE_URL"] = [set |-> TRUE, value |-> "x"]
       /\ resp[r].body.database_name = "[x] Not Set"
       /\ resp[r].body.database_url = "[ok] Set"

(* C7: collections is the first min(10, n) names, in order, that the       *)
(* enumeration returned when it succeeded, and empty in every other        *)
(* outcome; with no database module the database field is the             *)
(* module-not-found message and connection_status is "Not Connected".      *)
C7_CollectionsFirstTen ==
    \A r \in Reqs :
       Done(r, "/test") =>
          LET got == resp[r].body.collections
              listed == locals[r].listed
          IN  /\ resp[r].status = 200
              /\ listed.kind = "value" =>
                   /\ Len(got) = Min(10, Len(listed.value))
                   /\ \A i \in 1 .. Len(got) : got[i] = listed.value[i]
              /\ listed.kind # "value" => got = <<>>
              /\ (/\ locals[r].imported.kind = "raise"
                  /\ locals[r].imported.exc.type = "ModuleNotFoundError") =>
                   /\ resp[r].body.database.prefix =
                        "[x] Database module not found (run enable-database first)"
                   /\ resp[r].body.database.tail = <<>>
                   /\ got = <<>>
                   /\ resp[r].body.connection_status = "Not Connected"

\* more than ten names were returned, in descending order
C7_Witness ==
    \E r \in Reqs :
       /\ Done(r, "/test")
       /\ locals[r].listed.kind = "value"
       /\ Len(locals[r].listed.value) > 10
       /\ locals[r].listed.value[1] > locals[r].listed.value[2]
       /\ Len(resp[r].body.collections) = 10

(* C8: an error raised by the enumeration is caught: the database field is *)
(* the "Connected but Error" prefix followed by the first 50 characters of *)
(* the message (all of it if shorter), connection_status stays             *)
(* "Connected" and the response is returned; with a None handle the field  *)
(* is "Available but not initialized" and the status "Not Connected".      *)
C8_EnumerationErrorAbsorbed ==
    \A r \in Reqs :
       Done(r, "/test") =>
          LET listed == locals[r].listed
              imported == locals[r].imported
              body == resp[r].body
          IN  /\ resp[r].status = 200
              /\ listed.kind = "raise" =>
                   /\ body.database.prefix = "[warn]  Connected but Error: "
                   /\ Len(body.database.tail) = Min(50, Len(listed.exc.msg))
                   /\ \A i \in 1 .. Len(body.database.tail) :
                         body.database.tail[i] = listed.exc.msg[i]
                   /\ body.connection_status = "Connected"
              /\ (imported.kind = "ok" /\ imported.db = NONE) =>
                   /\ body.database = Text("[warn]  Available but not initialized", <<>>)
                   /\ body.connection_status = "Not Connected"

\* the enumeration raised with a message of more than 50 characters
C8_Witness ==
    \E r \in Reqs :
       /\ Done(r, "/test")
       /\ locals[r].listed.kind = "raise"
       /\ Len(locals[r].listed.exc.msg) > 50
       /\ Len(resp[r].body.database.tail) = 50

(* C9: requests are independent: among requests in flight, the response to *)
(* /analyze (latency_ms aside) is determined by that request's bytes and   *)
(* filename, / and /api/hello answer their fixed messages, and every       *)
(* request sees the same five-entry catalog.                               *)
C9_RequestsIndependent ==
    /\ \A r \in Reqs :
          /\ Done(r, "/") =>
               resp[r] = [status |-> 200,
                          body |-> [message |-> "Hello from FastAPI Backend!"]]
          /\ Done(r, "/api/hello") =>
               resp[r] = [status |-> 200,
                          body |-> [message |-> "Hello from the backend API!"]]
          /\ "conditions" \in DOMAIN locals[r] =>
               /\ Len(locals[r].conditions) = 5
               /\ \A i \in 1 .. 5 : locals[r].conditions[i].name = CatalogNames[i]
    /\ \A r, s \in Reqs :
          (/\ HasContent(r) /\ HasContent(s)
           /\ locals[r].content = locals[s].content
           /\ req[r].filename = req[s].filename) =>
             Timeless(resp[r]) = Timeless(resp[s])

\* two requests in flight with the same bytes and filename, answered with
\* different latencies
C9_Witness ==
    \E r, s \in Reqs :
       /\ r # s
       /\ Analyzed(r) /\ Analyzed(s)
       /\ locals[r].content = locals[s].content
       /\ req[r].filename = req[s].filename
       /\ resp[r].body.latency_ms # resp[s].body.latency_ms
       /\ resp[r].body.condition # "Acne Vulgaris"

(* C10: two non-empty uploads whose first min(4096, length) bytes have the *)
(* same sum receive the same condition, description and suggestions.       *)
C10_PrefixDecidesCondition ==
    \A r, s \in Reqs :
       (/\ Analyzed(r) /\ Analyzed(s)
        /\ PrefixSum(locals[r].content, 4096) = PrefixSum(locals[s].content, 4096)) =>
          /\ resp[r].status = 200 /\ resp[s].status = 200
          /\ resp[r].body.condition = resp[s].body.condition
          /\ resp[r].body.description = resp[s].body.description
          /\ resp[r].body.suggestions = resp[s].body.suggestions

\* the same first 4096 bytes, different later bytes and lengths, and with them
\* different confidence and size_kb
C10_Witness ==
    \E r, s \in Reqs :
       /\ Analyzed(r) /\ Analyzed(s)
       /\ Take(locals[r].content, 4096) = Take(locals[s].content, 4096)
       /\ ByteLen(locals[r].content) = 4096
       /\ ByteLen(locals[s].content) > 4096
       /\ SumBytes(locals[r].content) % 5 # SumBytes(locals[s].content) % 5
       /\ resp[r].body.size_kb # resp[s].body.size_kb
       /\ resp[r].body.confidence # resp[s].body.confidence
       /\ resp[r].body.condition = resp[s].body.condition

====
